---- MODULE Spec2Model ----
(***************************************************************************)
(* Job ingestion and enrichment pipeline of job-agent-mvp.                 *)
(*                                                                         *)
(*   app/services/scraper.py   scrape_job_details, search_adzuna_jobs,     *)
(*                             run_scraper, enrich_job_description         *)
(*   app/routers/features.py   get_job_by_id, enrich_if_needed, enrich_job *)
(*   app/routers/jobs.py       trigger_scrape (background runs)            *)
(*   app/models.py             JobPost (table job_posts, primary key id)   *)
(*   app/db.py                 SessionLocal (autoflush=False)              *)
(*                                                                         *)
(* Spec and SpecEnrich take one complete call of a handler as one step.    *)
(* SpecTasks runs the background calls of run_scraper step by step, so     *)
(* that they interleave.  SpecFunctions applies the pure functions (the    *)
(* relevance filter, the Extractor, the normalisation of an item) to       *)
(* inputs drawn from bounded sets.  The variable last records what the     *)
(* most recent call was given, what it did (provider requests, session     *)
(* operations, Extractor invocation) and what it returned; its field tick  *)
(* alternates, so that a call repeated with the same result is still a     *)
(* step.                                                                   *)
(*                                                                         *)
(* A text is abstracted to its length and an identity tag (body); a title  *)
(* or a query is the sequence of its lowercase words.                      *)
(***************************************************************************)
EXTENDS Naturals, Sequences, FiniteSets

VARIABLES
    creds,     \* ADZUNA_APP_ID and ADZUNA_APP_KEY are both set (read once at import)
    response,  \* the "results" list the search provider currently answers with
    store,     \* committed rows of table job_posts
    clock,     \* logical time of the last committing ingestion run
    last,      \* record of the most recent event: a handler call or a provider update
    tasks      \* the background runs added by the scrape trigger, in order of arrival

vars == <<creds, response, store, clock, last, tasks>>

----------------------------------------------------------------------------
(* Bounds of the model *)

MaxBatch == 2      \* longest "results" list of the provider
MaxClock == 2      \* number of ingestion runs that insert rows
MaxTasks == 2      \* number of calls of the scrape trigger

(* Program constants *)

MIN_DESCRIPTION_LENGTH == 500     \* features.py
EnrichSkipThreshold == 500        \* scraper.py, enrich_job_description
ItemDescriptionCap == 2000        \* scraper.py, search_adzuna_jobs
MinContainerLength == 200         \* scraper.py, scrape_job_details: len(text) > 200
MaxExtractLength == 8000          \* scraper.py, scrape_job_details: [:8000]
EllipsisLength == 3               \* scraper.py, scrape_job_details: len("...")

----------------------------------------------------------------------------
(* Texts *)

Text(n, b) == [len |-> n, body |-> b]
EmptyText == Text(0, "")
NULL == [len |-> 0, body |-> "None"]

\* s[:n] of a text
Prefix(t, n) == IF t.len <= n THEN t ELSE Text(n, "cut")

\* Python truthiness of an Optional[str]
Truthy(t) == t # NULL /\ t.len > 0

----------------------------------------------------------------------------
(* Inputs *)

Words == {"ai", "engineer", "data", "ml", "nurse", "driver", "c", "c#"}
WordLength == [w \in Words |->
                 CASE w = "ai" -> 2
                   [] w = "engineer" -> 8
                   [] w = "data" -> 4
                   [] w = "ml" -> 2
                   [] w = "nurse" -> 5
                   [] w = "driver" -> 6
                   [] w = "c" -> 1
                   [] w = "c#" -> 2]

\* the first and the last character of the word are word characters (\w), so
\* that the pattern \b(word)\b can match the word where it stands between
\* blanks; after the "#" of "c#" a blank or the end of the title is no \b
WordBounded == [w \in Words |-> w # "c#"]

Queries == {<<"ai", "engineer">>, <<"nurse">>}

\* elements of the provider's "results" list: two external ids, the urls
\* "u1", "u2" and the empty url, an empty and a 600-character description
Item(id, title, url, description) ==
    [id |-> id, title |-> title, redirect_url |-> url, description |-> description]
ItemA == Item("1", <<"ai", "engineer">>, "u1", EmptyText)
ItemB == Item("2", <<"ai", "engineer">>, "u1", Text(600, "api"))
ItemC == Item("1", <<"ai", "engineer">>, "u2", Text(600, "api"))
ItemD == Item("2", <<"ai", "engineer">>, "", EmptyText)
ItemE == Item("1", <<"ai", "engineer">>, "", EmptyText)
ItemF == Item("2", <<"nurse", "engineer">>, "u2", EmptyText)
\* an item whose "title" is the JSON value null
NoneTitle == <<"None">>
ItemG == Item("2", NoneTitle, "u2", EmptyText)

\* an item without the key "title", and the placeholder it is given
MissingTitle == <<"Missing">>
ItemH == Item("1", MissingTitle, "u1", EmptyText)
UnknownRole == <<"unknown", "role">>
ProviderItems == {ItemA, ItemB, ItemC, ItemD, ItemE, ItemF}
ItemIds == {item.id : item \in ProviderItems}

\* what scrape_job_details can return for a page: None or a non-empty text
ExtractorResults == {NULL, Text(80, "page"), Text(500, "page"), Text(501, "page")}

AdzunaId(ext) == [prefix |-> "adzuna", ext |-> ext]
JobIds == {AdzunaId(i) : i \in ItemIds \cup {"404"}}

Range(s) == {s[i] : i \in 1..Len(s)}


----------------------------------------------------------------------------
(* search_adzuna_jobs: credentials check, provider request, normalisation, *)
(* relevance filter.                                                       *)

\* subset of BANNED_WORDS that occurs in Words
BANNED_WORDS == {"nurse", "driver"}

ProviderOutcomes == {"network_error", "non_2xx", "ok"}

\* how the call ends before normalisation: without credentials the provider
\* is never asked
SearchOutcome(outcome) == IF ~creds THEN "no_credentials" ELSE outcome

\* a search that asks the provider even without credentials
ProviderRequestsAlways(outcome) == 1

\* number of GET requests sent to the provider by one search
ProviderRequests(outcome) == IF ~creds THEN 0 ELSE 1

\* the dict appended to jobs for one result item
Normalize(item) ==
    [id          |-> AdzunaId(item.id),
     title       |-> IF item.title = MissingTitle THEN UnknownRole ELSE item.title,
     url         |-> item.redirect_url,
     description |-> Prefix(item.description, ItemDescriptionCap)]

\* title[:200] or description[:2000] of a None raises TypeError
NormalizeRaises(item) == item.title = NoneTitle \/ item.description = NULL

\* the normalisation loop meets such an item: the exception leaves
\* search_adzuna_jobs and its caller
SearchRaises(outcome, results) ==
    /\ SearchOutcome(outcome) = "ok"
    /\ \E i \in 1..Len(results) : NormalizeRaises(results[i])

\* a word list that keeps the words of one character
query_words_all(query) == query

\* query_words: the words of the query of at least 2 characters
query_words(query) == SelectSeq(query, LAMBDA w : WordLength[w] >= 2)

\* index of the leftmost banned word of the title, 0 if there is none
BannedMatch(title) ==
    IF \E i \in 1..Len(title) : title[i] \in BANNED_WORDS
    THEN CHOOSE i \in 1..Len(title) :
             /\ title[i] \in BANNED_WORDS
             /\ \A j \in 1..(i - 1) : title[j] \notin BANNED_WORDS
    ELSE 0

\* re.search(QUERY_PATTERN, title_lower): QUERY_PATTERN joins the query words
\* unescaped between \b( and )\b
QueryMatch(qw, title) ==
    \E i \in 1..Len(qw) : WordBounded[qw[i]] /\ qw[i] \in Range(title)

\* step 1 of check_job_regex: the leftmost banned word of the title is not a
\* word of the query
Banned(query, title) ==
    LET m == BannedMatch(title)
    IN  m # 0 /\ title[m] \notin Range(query)

\* the reason check_job_regex returns with its verdict
FilterReason(query, job) ==
    LET qw == query_words(query)
    IN  IF Banned(query, job.title) THEN "Banned"
        ELSE IF qw # <<>> /\ ~QueryMatch(qw, job.title) THEN "No query match"
        ELSE "Passed"

\* check_job_regex: keep the job?
check_job_regex(query, job) ==
    LET qw == query_words(query)
    IN  /\ ~Banned(query, job.title)
        /\ (qw # <<>> => QueryMatch(qw, job.title))

\* the list search_adzuna_jobs returns
search_adzuna_jobs(query, outcome, results) ==
    IF SearchOutcome(outcome) # "ok"
    THEN <<>>
    ELSE LET jobs == [i \in 1..Len(results) |-> Normalize(results[i])]
         IN  SelectSeq(jobs, LAMBDA job : check_job_regex(query, job))

----------------------------------------------------------------------------
(* run_scraper: the dedup/upsert batch in one session (autoflush=False, so *)
(* a lookup sees committed rows only, never the session's pending adds).   *)

\* a lookup that forgets the url clause
ExistingByIdOnly(rows, job) == {r \in rows : r.id = job.id}

\* db.query(JobPost).filter((id == job.id) | (url == job.url)).first()
Existing(rows, job) == {r \in rows : r.id = job.id \/ r.url = job.url}

\* the session before the first candidate: loaded holds the persistent rows as
\* the session's objects carry them (a changed object is written at commit)
NewSession(rows) ==
    [loaded |-> rows, pending |-> <<>>, added |-> 0, skipped |-> 0, decisions |-> <<>>]

\* an upsert: a matching row takes the candidate's longer description
LoopStepUpsert(rows, acc, job) ==
    IF Existing(rows, job) # {}
    THEN [acc EXCEPT !.skipped = @ + 1,
                     !.decisions = Append(@, "skipped"),
                     !.loaded = {IF r \in Existing(rows, job)
                                    /\ job.description.len > r.description.len
                                 THEN [r EXCEPT !.description = job.description]
                                 ELSE r : r \in @}]
    ELSE [acc EXCEPT !.pending = Append(@, job),
                     !.added = @ + 1,
                     !.decisions = Append(@, "added")]

\* one iteration of the for loop over jobs
LoopStep(rows, acc, job) ==
    IF Existing(rows, job) # {}
    THEN [acc EXCEPT !.skipped = @ + 1,
                     !.decisions = Append(@, "skipped")]
    ELSE [acc EXCEPT !.pending = Append(@, job),
                     !.added = @ + 1,
                     !.decisions = Append(@, "added")]

\* the loop over jobs[1..n]
RECURSIVE Loop(_, _, _)
Loop(rows, jobs, n) ==
    IF n = 0 THEN NewSession(rows)
    ELSE LoopStep(rows, Loop(rows, jobs, n - 1), jobs[n])

\* a table without primary key: no INSERT is refused
IntegrityErrorNever(rows, pending) == FALSE

\* the INSERTs of the flush violate the primary key of job_posts
IntegrityError(rows, pending) ==
    \/ \E i, j \in 1..Len(pending) : i # j /\ pending[i].id = pending[j].id
    \/ \E i \in 1..Len(pending) : \E r \in rows : r.id = pending[i].id

\* the row of a pending JobPost; fetched_at defaults to now() at INSERT
NewRow(job, now) ==
    [id          |-> job.id,
     url         |-> job.url,
     title       |-> job.title,
     description |-> job.description,
     fetched_at  |-> now]

\* a run that never commits its session
CommitForgotten(rows, pending, now) == rows

\* db.commit() that succeeds
Commit(rows, pending, now) == rows \cup {NewRow(pending[i], now) : i \in 1..Len(pending)}

\* a rollback that keeps what was added before the failure
RollbackKeepsAdded(rows, pending, now) == Commit(rows, pending, now)

\* db.rollback() after an exception: the committed rows stay as they were
Rollback(rows, pending, now) == rows

ZeroReport(query) ==
    [status |-> "success", added |-> 0, skipped |-> 0, total_processed |-> 0,
     query |-> query]

\* a report that counts every item of the provider's answer as processed
SuccessReportUnfiltered(query, acc, jobs) ==
    [status |-> "success", added |-> acc.added, skipped |-> acc.skipped,
     total_processed |-> Len(response), query |-> query]

SuccessReport(query, acc, jobs) ==
    [status |-> "success", added |-> acc.added, skipped |-> acc.skipped,
     total_processed |-> Len(jobs), query |-> query]

ErrorReport(query, acc, msg) ==
    [status |-> "error", error |-> msg, added |-> acc.added, query |-> query]

\* fault = 0: the store works; fault = k in 1..Len(jobs): the store fails
\* while candidate k is looked up or added; fault = Len(jobs)+1: the store
\* fails at db.commit()
RunScraper(query, outcome, fault) ==
    LET jobs == search_adzuna_jobs(query, outcome, response)
        n == Len(jobs)
        done == IF fault \in 1..n THEN fault - 1 ELSE n
        acc == Loop(store, jobs, done)
        integrity == fault = 0 /\ IntegrityError(store, acc.pending)
        failed == fault # 0 \/ integrity
        now == IF acc.pending # <<>> THEN clock + 1 ELSE clock
    IN  /\ fault <= n + 1
        /\ (n = 0 => fault = 0)
        /\ (~failed /\ acc.pending # <<>>) => clock < MaxClock
        /\ store' = IF n = 0 THEN store
                    ELSE IF failed THEN Rollback(store, acc.pending, now)
                    ELSE Commit(acc.loaded, acc.pending, now)
        /\ clock' = IF n = 0 \/ failed THEN clock ELSE now
        /\ last' = [op        |-> "run_scraper",
                    tick      |-> 1 - last.tick,
                    query     |-> query,
                    search    |-> SearchOutcome(outcome),
                    requests  |-> ProviderRequests(outcome),
                    jobs      |-> jobs,
                    fresh     |-> \A k \in 1..n : Existing(store, jobs[k]) = {},
                    decisions |-> acc.decisions,
                    fault     |-> fault,
                    dbops     |-> IF n = 0 THEN 0 ELSE done + acc.added + 1,
                    raised    |-> FALSE,
                    report    |-> IF n = 0 THEN ZeroReport(query)
                                  ELSE IF integrity THEN ErrorReport(query, acc, "IntegrityError")
                                  ELSE IF failed THEN ErrorReport(query, acc, "OperationalError")
                                  ELSE SuccessReport(query, acc, jobs)]
        /\ UNCHANGED <<tasks, creds, response>>

----------------------------------------------------------------------------
(* The search provider (environment): its result list changes over time.   *)

ProviderPublish(item) ==
    /\ Len(response) < MaxBatch
    /\ response' = Append(response, item)
    /\ last' = [op |-> "provider_update", tick |-> 1 - last.tick]
    /\ UNCHANGED <<tasks, creds, store, clock>>

ProviderClear ==
    /\ response # <<>>
    /\ response' = <<>>
    /\ last' = [op |-> "provider_update", tick |-> 1 - last.tick]
    /\ UNCHANGED <<tasks, creds, store, clock>>

----------------------------------------------------------------------------
(* Enrichment: enrich_job_description (scraper.py), and the feature        *)
(* endpoints and the manual trigger of features.py, which both go through  *)
(* get_job_by_id and enrich_if_needed.  ext is what scrape_job_details     *)
(* returns if it is called; fault names the store operation that fails.    *)

\* an update that writes the table back with the changed row alone
UpdateDescriptionAlone(rows, job_id, text) ==
    {[r EXCEPT !.description = text] : r \in {q \in rows : q.id = job_id}}

\* an update that stamps the row it changes
UpdateDescriptionStamped(rows, job_id, text) ==
    {IF r.id = job_id THEN [r EXCEPT !.description = text, !.fetched_at = 0] ELSE r :
        r \in rows}

\* UPDATE job_posts SET description = text WHERE id = job_id
UpdateDescription(rows, job_id, text) ==
    {IF r.id = job_id THEN [r EXCEPT !.description = text] ELSE r : r \in rows}

HasJob(rows, job_id) == \E r \in rows : r.id = job_id
JobRow(rows, job_id) == CHOOSE r \in rows : r.id = job_id

\* the dict get_job_by_id builds from the job_posts row (the legacy
\* saved_jobs table is outside the job store and holds none of these ids)
get_job_by_id(rows, job_id) ==
    LET r == JobRow(rows, job_id)
    IN  [id |-> r.id, title |-> r.title, url |-> r.url,
         description |-> r.description, source |-> "job_posts"]

\* enrich_job_description: skip when the stored description is long enough
SkipDirect(current_len) == current_len > EnrichSkipThreshold

\* enrich_if_needed: skip when the description of the dict is long enough
SkipIfNeeded(description) == description.len >= MIN_DESCRIPTION_LENGTH

\* a comparison that also takes a text of the same length
RicherOrEqual(full_description, current_len) ==
    Truthy(full_description) /\ full_description.len >= current_len

\* both paths: is the scraped text taken?
Richer(full_description, current_len) ==
    Truthy(full_description) /\ full_description.len > current_len

\* enrich_if_needed(job): the dict returned, the rows after it, whether the
\* Extractor was called and whether db.commit() raised
enrich_if_needed(job, ext, rows, fault) ==
    IF SkipIfNeeded(job.description) \/ job.url = ""
    THEN [job |-> job, rows |-> rows, scraped |-> FALSE, raised |-> FALSE]
    ELSE IF Richer(ext, job.description.len)
    THEN [job     |-> [job EXCEPT !.description = ext],
          rows    |-> IF job.source = "job_posts" /\ HasJob(rows, job.id) /\ fault # "commit"
                      THEN UpdateDescription(rows, job.id, ext)
                      ELSE rows,
          scraped |-> TRUE,
          raised  |-> job.source = "job_posts" /\ HasJob(rows, job.id) /\ fault = "commit"]
    ELSE [job |-> job, rows |-> rows, scraped |-> TRUE, raised |-> FALSE]

\* the part of last that the three enrichment paths share
Observed(op, job_id, scraped, ext, fault, report) ==
    [op        |-> op,
     tick      |-> 1 - last.tick,
     job_id    |-> job_id,
     found     |-> HasJob(store, job_id),
     before    |-> IF HasJob(store, job_id) THEN JobRow(store, job_id).description ELSE NULL,
     url       |-> IF HasJob(store, job_id) THEN JobRow(store, job_id).url ELSE "",
     scraped   |-> scraped,
     extracted |-> IF scraped THEN ext ELSE NULL,
     fault     |-> fault,
     report    |-> report]

\* the result dict of enrich_job_description
DirectReport(job_id, ext, fault) ==
    IF fault = "query" THEN [status |-> "error", error |-> "OperationalError"]
    ELSE IF ~HasJob(store, job_id) THEN [status |-> "error", error |-> "Job not found"]
    ELSE LET job == JobRow(store, job_id)
             current_len == job.description.len
         IN  IF job.url = "" THEN [status |-> "error", error |-> "Job has no URL"]
             ELSE IF SkipDirect(current_len)
             THEN [status |-> "skipped", chars |-> current_len]
             ELSE IF Richer(ext, current_len)
             THEN IF fault = "commit"
                  THEN [status |-> "error", error |-> "OperationalError"]
                  ELSE [status |-> "success", chars |-> ext.len]
             ELSE [status |-> "failed", reason |-> "Could not extract more content"]

\* does enrich_job_description reach scrape_job_details?
DirectScrapes(job_id, fault) ==
    /\ fault # "query"
    /\ HasJob(store, job_id)
    /\ JobRow(store, job_id).url # ""
    /\ ~SkipDirect(JobRow(store, job_id).description.len)

\* a success that is reported but never written
DirectRowsUnwritten(job_id, ext, report) == store

\* the rows after enrich_job_description returned report
DirectRows(job_id, ext, report) ==
    IF report.status = "success" THEN UpdateDescription(store, job_id, ext) ELSE store

EnrichJobDescription(job_id, ext, fault) ==
    LET report == DirectReport(job_id, ext, fault)
        scraped == DirectScrapes(job_id, fault)
    IN  /\ fault \in {"none", "query", "commit"}
        /\ (fault = "commit" => scraped /\ Richer(ext, JobRow(store, job_id).description.len))
        /\ (~scraped => ext = NULL)
        /\ store' = DirectRows(job_id, ext, report)
        /\ last' = Observed("enrich_job_description", job_id, scraped, ext, fault, report)
        /\ UNCHANGED <<tasks, creds, response, clock>>

\* a feature endpoint (cover letter, CV, ...): get_job_by_id, then
\* enrich_if_needed, then the prompt is built from the returned dict
FeatureEndpoint(job_id, ext, fault) ==
    IF ~HasJob(store, job_id)
    THEN /\ ext = NULL /\ fault = "none"
         /\ last' = Observed("feature_endpoint", job_id, FALSE, ext, fault,
                             [http |-> "404"])
         /\ UNCHANGED <<tasks, creds, response, store, clock>>
    ELSE LET r == enrich_if_needed(get_job_by_id(store, job_id), ext, store, fault)
         IN  /\ fault \in {"none", "commit"}
             /\ (fault = "commit" => r.raised)
             /\ (~r.scraped => ext = NULL)
             /\ store' = r.rows
             /\ last' = Observed("feature_endpoint", job_id, r.scraped, ext, fault,
                                 IF r.raised THEN [http |-> "500"]
                                 ELSE [http |-> "200", description |-> r.job.description])
             /\ UNCHANGED <<tasks, creds, response, clock>>

\* POST /api/enrich-job, the manual trigger: blanks the description of the
\* dict ("Force re-scrape") before it calls enrich_if_needed
EnrichJob(job_id, ext, fault) ==
    IF ~HasJob(store, job_id)
    THEN /\ ext = NULL /\ fault = "none"
         /\ last' = Observed("enrich_job", job_id, FALSE, ext, fault, [http |-> "404"])
         /\ UNCHANGED <<tasks, creds, response, store, clock>>
    ELSE LET job == get_job_by_id(store, job_id)
             original_len == job.description.len
             r == enrich_if_needed([job EXCEPT !.description = EmptyText], ext, store, fault)
             new_len == r.job.description.len
         IN  /\ fault \in {"none", "commit"}
             /\ (fault = "commit" => r.raised)
             /\ (~r.scraped => ext = NULL)
             /\ store' = r.rows
             /\ last' = Observed("enrich_job", job_id, r.scraped, ext, fault,
                                 IF r.raised THEN [http |-> "500"]
                                 ELSE [http           |-> "200",
                                       status         |-> IF new_len > original_len
                                                          THEN "success" ELSE "no_change",
                                       original_chars |-> original_len,
                                       new_chars      |-> new_len])
             /\ UNCHANGED <<tasks, creds, response, clock>>

----------------------------------------------------------------------------

Init ==
    /\ creds \in BOOLEAN
    /\ response = <<>>
    /\ store = {}
    /\ clock = 0
    /\ last = [op |-> "start", tick |-> 0]
    /\ tasks = <<>>

Next ==
    \/ \E item \in ProviderItems : ProviderPublish(item)
    \/ ProviderClear
    \/ \E query \in Queries, outcome \in ProviderOutcomes, fault \in 0..(MaxBatch + 1) :
           RunScraper(query, outcome, fault)

Spec == Init /\ [][Next]_vars

(* Enrichment over a store filled by ingestion: the provider keeps one     *)
(* result list, ingestion runs put it into the store, and the three        *)
(* enrichment paths are called in any order.                               *)

EnrichFeeds == {<<ItemA, ItemD>>, <<ItemC, ItemD>>, <<ItemA, ItemB>>}
Faults == {"none", "query", "commit"}

InitEnrich ==
    /\ creds = TRUE
    /\ response \in EnrichFeeds
    /\ store = {}
    /\ clock = 0
    /\ last = [op |-> "start", tick |-> 0]
    /\ tasks = <<>>

NextEnrich ==
    \/ \E query \in Queries, outcome \in ProviderOutcomes, fault \in 0..(MaxBatch + 1) :
           RunScraper(query, outcome, fault)
    \/ \E job_id \in JobIds, ext \in ExtractorResults, fault \in Faults :
           EnrichJobDescription(job_id, ext, fault)
    \/ \E job_id \in JobIds, ext \in ExtractorResults, fault \in Faults :
           FeatureEndpoint(job_id, ext, fault)
    \/ \E job_id \in JobIds, ext \in ExtractorResults, fault \in Faults :
           EnrichJob(job_id, ext, fault)

SpecEnrich == InitEnrich /\ [][NextEnrich]_vars

(* Concurrent enrichment: the store is shared by every worker process and  *)
(* background thread of the service, so calls of enrich_job_description    *)
(* and of enrich_if_needed made from different ones overlap. Each call is  *)
(* a record of tasks that moves through three steps: it reads the row, it  *)
(* calls the Extractor (seconds of network time), it assigns the           *)
(* description and commits. No step takes a lock or compares versions.     *)

MaxCalls == 2
CallKinds == {"enrich_job_description", "enrich_if_needed"}

\* a call that has been accepted and has not read the row yet
NewCall(kind, job_id) ==
    [pc |-> "read", kind |-> kind, job_id |-> job_id,
     description |-> NULL, full_description |-> NULL]

\* the skip test of the path the call belongs to
CallSkips(kind, description) ==
    IF kind = "enrich_job_description"
    THEN SkipDirect(description.len)
    ELSE SkipIfNeeded(description)

\* a request arrives: enrich_job_description(job_id), or a feature endpoint
\* whose get_job_by_id / enrich_if_needed is about to run
CallEnrich(kind, job_id) ==
    /\ Len(tasks) < MaxCalls
    /\ tasks' = Append(tasks, NewCall(kind, job_id))
    /\ UNCHANGED <<creds, response, store, clock, last>>

\* the call reads the row and decides whether the Extractor is needed
CallRead(i) ==
    LET call == tasks[i]
        job == JobRow(store, call.job_id)
    IN  /\ call.pc = "read"
        /\ tasks' = [tasks EXCEPT ![i] =
               IF ~HasJob(store, call.job_id) THEN [call EXCEPT !.pc = "done"]
               ELSE [call EXCEPT !.description = job.description,
                                 !.pc = IF job.url = "" \/ CallSkips(call.kind, job.description)
                                        THEN "done" ELSE "scrape"]]
        /\ UNCHANGED <<creds, response, store, clock, last>>

\* scrape_job_details returns ext; the text is taken when it is longer than
\* the description the call read
CallScrape(i, ext) ==
    LET call == tasks[i]
    IN  /\ call.pc = "scrape"
        /\ tasks' = [tasks EXCEPT ![i] =
               [call EXCEPT !.full_description = ext,
                            !.pc = IF Richer(ext, call.description.len)
                                   THEN "write" ELSE "done"]]
        /\ UNCHANGED <<creds, response, store, clock, last>>

\* job.description = full_description; db.commit()
CallRows(call) ==
    IF HasJob(store, call.job_id)
    THEN UpdateDescription(store, call.job_id, call.full_description)
    ELSE store

CallWrite(i) ==
    /\ tasks[i].pc = "write"
    /\ store' = CallRows(tasks[i])
    /\ tasks' = [tasks EXCEPT ![i] = [@ EXCEPT !.pc = "done"]]
    /\ UNCHANGED <<creds, response, clock, last>>

InitCalls ==
    /\ creds = TRUE
    /\ response \in EnrichFeeds
    /\ store = {}
    /\ clock = 0
    /\ last = [op |-> "start", tick |-> 0]
    /\ tasks = <<>>

NextCalls ==
    \/ \E query \in Queries : RunScraper(query, "ok", 0)
    \/ \E kind \in CallKinds, job_id \in JobIds : CallEnrich(kind, job_id)
    \/ \E i \in 1..Len(tasks) : CallRead(i)
    \/ \E i \in 1..Len(tasks), ext \in ExtractorResults : CallScrape(i, ext)
    \/ \E i \in 1..Len(tasks) : CallWrite(i)

SpecCalls == InitCalls /\ [][NextCalls]_vars

----------------------------------------------------------------------------
(* Background runs: POST /jobs/scrape (jobs.py, trigger_scrape) adds one   *)
(* run_scraper call to the request's BackgroundTasks and answers at once;  *)
(* the calls run in the thread pool, so the runs of several requests       *)
(* interleave.  A run is modelled step by step: the search, one loop       *)
(* iteration per candidate (the lookup reads the committed rows of that    *)
(* moment), and the commit.  Each run counts the requests it sent to the   *)
(* provider and keeps the list of the steps it has taken.                  *)

TaskItems == {ItemA, ItemC, ItemD, ItemG}

NoResult == [kind |-> "none"]
Report(report) == [kind |-> "report", report |-> report]
Exception(type) == [kind |-> "exception", type |-> type]

QueuedTask(query) ==
    [pc |-> "queued", query |-> query, jobs |-> <<>>, k |-> 0,
     acc |-> NewSession({}), result |-> NoResult, requests |-> 0, steps |-> <<>>]

\* the run has returned result (a report dict) or has ended in an exception
DoneTask(task, result) ==
    [pc |-> "done", query |-> task.query, jobs |-> <<>>, k |-> 0,
     acc |-> NewSession({}), result |-> result, requests |-> task.requests,
     steps |-> IF result.kind = "report" THEN Append(task.steps, "report")
               ELSE task.steps]

\* requests.get(url, params=params, timeout=30) has been called
Sent(task, outcome) ==
    [task EXCEPT !.requests = @ + ProviderRequests(outcome),
                 !.steps = Append(@, "search")]

\* a run that asks the provider again after a failed request
FailedSearchRetried(task) == task

\* the request failed: search_adzuna_jobs returns [] and run_scraper returns
\* the zero report
FailedSearch(task) == DoneTask(task, Report(ZeroReport(task.query)))

\* background_tasks.add_task(run_scraper, query)
Enqueue(queue, query) == Append(queue, QueuedTask(query))

TriggerScrape(query) ==
    /\ Len(tasks) < MaxTasks
    /\ tasks' = Enqueue(tasks, query)
    /\ last' = [op       |-> "trigger_scrape",
                tick     |-> 1 - last.tick,
                query    |-> query,
                response |-> [message |-> "Scraping started",
                              status  |-> "background_task_queued",
                              query   |-> query]]
    /\ UNCHANGED <<creds, response, store, clock>>

\* the provider adds an item to its result list
TaskProviderPublish(item) ==
    /\ Len(response) < MaxBatch
    /\ response' = Append(response, item)
    /\ UNCHANGED <<tasks, creds, store, clock, last>>

\* search_adzuna_jobs and the "if not jobs" return of run_scraper
TaskSearch(i, outcome) ==
    LET sent == Sent(tasks[i], outcome)
        task == [sent EXCEPT !.steps = Append(@, "filter")]
        jobs == search_adzuna_jobs(task.query, outcome, response)
    IN  /\ tasks[i].pc = "queued"
        /\ tasks' = [tasks EXCEPT ![i] =
                        IF SearchOutcome(outcome) # "ok"
                        THEN FailedSearch(sent)
                        ELSE IF SearchRaises(outcome, response)
                        THEN DoneTask(task, Exception("TypeError"))
                        ELSE IF jobs = <<>>
                        THEN DoneTask(task, Report(ZeroReport(task.query)))
                        ELSE [task EXCEPT !.pc = "loop", !.jobs = jobs]]
        /\ UNCHANGED <<creds, response, store, clock, last>>

\* one iteration of the for loop
TaskLoop(i) ==
    LET task == tasks[i]
    IN  /\ task.pc = "loop"
        /\ task.k < Len(task.jobs)
        /\ tasks' = [tasks EXCEPT ![i] =
                        [task EXCEPT !.k = @ + 1,
                                     !.acc = LoopStep(store, @, task.jobs[task.k + 1]),
                                     !.steps = Append(@, "upsert")]]
        /\ UNCHANGED <<creds, response, store, clock, last>>

\* db.commit() and the return, or the except branch
TaskCommit(i) ==
    LET task == tasks[i]
        failed == IntegrityError(store, task.acc.pending)
        now == IF task.acc.pending # <<>> THEN clock + 1 ELSE clock
    IN  /\ task.pc = "loop"
        /\ task.k = Len(task.jobs)
        /\ store' = IF failed THEN Rollback(store, task.acc.pending, now)
                    ELSE Commit(store, task.acc.pending, now)
        /\ clock' = IF failed THEN clock ELSE now
        /\ tasks' = [tasks EXCEPT ![i] =
                        DoneTask(task,
                            Report(IF failed
                                   THEN ErrorReport(task.query, task.acc, "IntegrityError")
                                   ELSE SuccessReport(task.query, task.acc, task.jobs)))]
        /\ UNCHANGED <<creds, response, last>>

\* the next step of background run i
TaskStep(i) ==
    \/ \E outcome \in ProviderOutcomes : TaskSearch(i, outcome)
    \/ TaskLoop(i)
    \/ TaskCommit(i)

InitTasks ==
    /\ creds = TRUE
    /\ response = <<>>
    /\ store = {}
    /\ clock = 0
    /\ last = [op |-> "start", tick |-> 0]
    /\ tasks = <<>>

NextTasks ==
    \/ \E item \in TaskItems : TaskProviderPublish(item)
    \/ \E query \in Queries : TriggerScrape(query)
    \/ \E i \in 1..Len(tasks), outcome \in ProviderOutcomes : TaskSearch(i, outcome)
    \/ \E i \in 1..Len(tasks) : TaskLoop(i)
    \/ \E i \in 1..Len(tasks) : TaskCommit(i)

\* the thread pool runs every added task: each step of a run that can be
\* taken is taken in the end (the provider request has a 30 s timeout)
FairTasks == \A i \in 1..MaxTasks : WF_vars(i <= Len(tasks) /\ TaskStep(i))

SpecTasks == InitTasks /\ [][NextTasks]_vars /\ FairTasks

----------------------------------------------------------------------------
(* The pure functions of the pipeline, each applied once to an input drawn *)
(* from a bounded set: the relevance filter check_job_regex.               *)

MaxTitle == 3      \* longest title enumerated word by word

FilterQueries ==
    Queries \cup {<<>>, <<"c">>, <<"ai">>, <<"c#">>, <<"c#", "engineer">>,
                  <<"nurse", "driver">>, <<"c", "nurse">>,
                  <<"ai", "ml", "data", "engineer">>}

FilterTitles ==
    UNION {[1..n -> Words \ {"c"}] : n \in 0..MaxTitle}
        \cup {<<"ai", "ml", "data", "engineer">>,
              <<"ai", "ml", "data", "engineer", "nurse">>,
              <<"nurse", "ai", "ml", "data", "engineer">>}

FilterCalls ==
    {[op |-> "call", tick |-> 0, fn |-> "check_job_regex", query |-> q,
      job |-> Normalize(Item("1", t, "u1", EmptyText))] :
         q \in FilterQueries, t \in FilterTitles}

CheckJobRegex ==
    /\ last.op = "call"
    /\ last.fn = "check_job_regex"
    /\ last' = [op     |-> "check_job_regex",
                tick   |-> 1 - last.tick,
                query  |-> last.query,
                title  |-> last.job.title,
                keep   |-> check_job_regex(last.query, last.job),
                reason |-> FilterReason(last.query, last.job)]
    /\ UNCHANGED <<tasks, creds, response, store, clock>>

(* scrape_job_details: the page fetch, the choice of the container, the     *)
(* whitespace normalisation and the truncation.  The text of an element is *)
(* abstracted to its length as get_text returns it (raw) and its length    *)
(* after the blank lines and the blanks around lines are removed (norm).   *)

selectors ==
    <<"[data-qa=job-description]", ".job-description", "#job-description",
      ".content__content", ".posting-page", ".section-wrapper",
      ".job-description-wrapper", "article", ".job-details", ".job-content", "main">>

Absent == [present |-> FALSE, raw |-> 0, norm |-> 0]
ElementText(raw, norm) == [present |-> TRUE, raw |-> raw, norm |-> norm]

\* the selectors for which the pages of the model can hold an element
PageSelectors == {"[data-qa=job-description]", ".job-description", "main"}

ContainerTexts ==
    {Absent, ElementText(150, 150), ElementText(200, 200), ElementText(201, 190),
     ElementText(8001, 8000), ElementText(8001, 8001), ElementText(10000, 10000)}

BodyTexts ==
    {Absent, ElementText(0, 0), ElementText(150, 150), ElementText(201, 190),
     ElementText(8001, 8001), ElementText(10000, 10000)}

\* a body element holds every container, so its text is not shorter
Pages ==
    {page \in [containers : [PageSelectors -> ContainerTexts], body : BodyTexts] :
        page.body.present =>
            \A sel \in PageSelectors : page.containers[sel].raw <= page.body.raw}

NoPage == [containers |-> [sel \in PageSelectors |-> Absent], body |-> Absent]

Urls == {"", "u1"}
FetchOutcomes == {"transport_error", "timeout", "non_2xx", "ok"}

\* soup.select_one(selector)
SelectOne(page, sel) ==
    IF sel \in DOMAIN page.containers THEN page.containers[sel] ELSE Absent

\* a test that takes every element that is there, whatever its length
LongEnoughAny(element) == element.present

\* the element exists and its text is longer than 200 characters
LongEnough(element) == element.present /\ element.raw > MinContainerLength

\* index of the selector the loop breaks at, 0 if it runs to its end
FirstLong(page) ==
    IF \E i \in 1..Len(selectors) : LongEnough(SelectOne(page, selectors[i]))
    THEN CHOOSE i \in 1..Len(selectors) :
             /\ LongEnough(SelectOne(page, selectors[i]))
             /\ \A j \in 1..(i - 1) : ~LongEnough(SelectOne(page, selectors[j]))
    ELSE 0

\* description_text before the normalisation: the container's text, else the
\* text of body, else the empty string
Extracted(page) ==
    LET i == FirstLong(page)
    IN  IF i # 0
        THEN [src |-> selectors[i], raw |-> SelectOne(page, selectors[i]).raw,
              norm |-> SelectOne(page, selectors[i]).norm]
        ELSE IF page.body.present
        THEN [src |-> "body", raw |-> page.body.raw, norm |-> page.body.norm]
        ELSE [src |-> "", raw |-> 0, norm |-> 0]

\* a truncation that tests the length of the text before its normalisation
TruncateRaw(text) ==
    IF text.raw > MaxExtractLength
    THEN [len |-> MaxExtractLength + EllipsisLength, body |-> text.src,
          head |-> MaxExtractLength, marker |-> "..."]
    ELSE [len |-> text.norm, body |-> text.src, head |-> text.norm, marker |-> ""]

\* lines 79-83: the normalised text, cut to its first 8000 characters and
\* "..." when it is longer; head is the number of its characters that are kept
Truncate(text) ==
    IF text.norm > MaxExtractLength
    THEN [len |-> MaxExtractLength + EllipsisLength, body |-> text.src,
          head |-> MaxExtractLength, marker |-> "..."]
    ELSE [len |-> text.norm, body |-> text.src, head |-> text.norm, marker |-> ""]

\* number of client.get calls of one scrape_job_details call
PageRequests(url) == IF url = "" THEN 0 ELSE 1

\* a fetch whose non-2xx answer leaves the function as an exception
FetchRaisesOnStatus(url, fetch) == url # "" /\ fetch = "non_2xx"

\* the exception of the fetch leaves the function: never, the try block
\* catches Exception
FetchRaises(url, fetch) == FALSE

scrape_job_details(url, fetch, page) ==
    LET text == Extracted(page)
    IN  IF url = "" \/ fetch # "ok" \/ text.raw = 0 THEN NULL
        ELSE Truncate(text)

ScrapeCalls ==
    {[op |-> "call", tick |-> 0, fn |-> "scrape_job_details", url |-> u,
      fetch |-> f, page |-> IF u # "" /\ f = "ok" THEN pg ELSE NoPage] :
         u \in Urls, f \in FetchOutcomes, pg \in Pages}

ScrapeJobDetails ==
    /\ last.op = "call"
    /\ last.fn = "scrape_job_details"
    /\ last' = [op        |-> "scrape_job_details",
                tick      |-> 1 - last.tick,
                url       |-> last.url,
                fetch     |-> IF last.url = "" THEN "none" ELSE last.fetch,
                page      |-> last.page,
                requests  |-> PageRequests(last.url),
                raised    |-> FetchRaises(last.url, last.fetch),
                extracted |-> Extracted(last.page),
                result    |-> IF FetchRaises(last.url, last.fetch) THEN NULL
                              ELSE scrape_job_details(last.url, last.fetch, last.page)]
    /\ UNCHANGED <<tasks, creds, response, store, clock>>

(* The normalisation of one provider item with its salary fields.  A JSON  *)
(* value is abstracted to its kind; a number and a string of digits carry  *)
(* their value.                                                            *)

Missing == [kind |-> "missing", value |-> 0]           \* no such key: item.get gives None
JsonNull == [kind |-> "null", value |-> 0]
JsonNumber(n) == [kind |-> "number", value |-> n]
JsonInfinity == [kind |-> "infinity", value |-> 0]     \* json reads Infinity as a float
DigitString(n) == [kind |-> "digits", value |-> n]     \* such as "60000"
WordString == [kind |-> "word", value |-> 0]           \* such as "not-a-number"
EmptyString == [kind |-> "empty", value |-> 0]
JsonList == [kind |-> "list", value |-> 0]             \* a list that is not empty

SalaryValues ==
    {Missing, JsonNull, JsonNumber(0), JsonNumber(50000), JsonInfinity,
     DigitString(60000), WordString, EmptyString, JsonList}

NoneInt == [kind |-> "None", value |-> 0]
Int(n) == [kind |-> "int", value |-> n]

\* Python truthiness of the value item.get returns
TruthyValue(v) ==
    /\ v.kind \notin {"missing", "null", "empty"}
    /\ ~(v.kind = "number" /\ v.value = 0)

\* int(v): the integer, or the exception it raises
IntOf(v) ==
    CASE v.kind \in {"number", "digits"} -> [error |-> "", value |-> v.value]
      [] v.kind = "word" -> [error |-> "ValueError", value |-> 0]
      [] v.kind = "infinity" -> [error |-> "OverflowError", value |-> 0]
      [] OTHER -> [error |-> "TypeError", value |-> 0]

\* an except clause that names ValueError alone
SalaryErrorsCaughtValueError == {"ValueError"}

\* except (ValueError, TypeError)
SalaryErrorsCaught == {"ValueError", "TypeError"}

\* try: int(v) if v else None; except (ValueError, TypeError): None
ParseSalary(v) ==
    IF ~TruthyValue(v) THEN [raised |-> "", value |-> NoneInt]
    ELSE IF IntOf(v).error = "" THEN [raised |-> "", value |-> Int(IntOf(v).value)]
    ELSE IF IntOf(v).error \in SalaryErrorsCaught THEN [raised |-> "", value |-> NoneInt]
    ELSE [raised |-> IntOf(v).error, value |-> NoneInt]

\* "company" and "location" of an item: the key is missing, null, a flat
\* string, or an object whose "display_name" is a string, missing or null
AbsentField == [kind |-> "missing", name |-> ""]
NullField == [kind |-> "null", name |-> ""]
FlatString(name) == [kind |-> "string", name |-> name]
Named(name) == [kind |-> "object", name |-> name]
Unnamed == [kind |-> "object_without_name", name |-> ""]
NullNamed == [kind |-> "object_with_null_name", name |-> ""]

DisplayValues(name) ==
    {AbsentField, NullField, FlatString(name), Named(name), Unnamed, NullNamed}

\* an Optional[str]
NoneStr == [none |-> TRUE, text |-> ""]
Str(text) == [none |-> FALSE, text |-> text]

\* obj.get("display_name", placeholder) if isinstance(obj, dict) else placeholder
DisplayName(v, placeholder) ==
    CASE v.kind = "object" -> Str(v.name)
      [] v.kind = "object_with_null_name" -> NoneStr
      [] OTHER -> Str(placeholder)

SalaryItem(item, salary_min, salary_max) ==
    [item |-> item, company |-> Named("acme"), location |-> Named("leeds"),
     salary_min |-> salary_min, salary_max |-> salary_max]

DisplayItem(item, company, location) ==
    [item |-> item, company |-> company, location |-> location,
     salary_min |-> Missing, salary_max |-> JsonNumber(50000)]

NormalizeCalls ==
    {[op |-> "call", tick |-> 0, fn |-> "normalize", item |-> SalaryItem(i, lo, hi)] :
         i \in {ItemA, ItemB}, lo \in SalaryValues, hi \in SalaryValues}
    \cup
    {[op |-> "call", tick |-> 0, fn |-> "normalize", item |-> DisplayItem(i, c, l)] :
         i \in {ItemA, ItemG, ItemH}, c \in DisplayValues("acme"),
         l \in DisplayValues("leeds")}

\* one pass of the loop over results: jobs is the list after it; raised names
\* the first exception of the pass (the salaries are parsed before the dict
\* is built from title, company, location and description)
NormalizeItem ==
    LET lo == ParseSalary(last.item.salary_min)
        hi == ParseSalary(last.item.salary_max)
        company == DisplayName(last.item.company, "Unknown")
        location == DisplayName(last.item.location, "Remote")
        raised == IF lo.raised # "" THEN lo.raised
                  ELSE IF hi.raised # "" THEN hi.raised
                  ELSE IF NormalizeRaises(last.item.item) \/ company.none \/ location.none
                  THEN "TypeError"
                  ELSE ""
    IN  /\ last.op = "call"
        /\ last.fn = "normalize"
        /\ last' = [op     |-> "normalize",
                    tick   |-> 1 - last.tick,
                    item   |-> last.item,
                    raised |-> raised,
                    jobs   |-> IF raised # "" THEN <<>>
                               ELSE <<[job        |-> Normalize(last.item.item),
                                       company    |-> company,
                                       location   |-> location,
                                       salary_min |-> lo.value,
                                       salary_max |-> hi.value]>>]
        /\ UNCHANGED <<tasks, creds, response, store, clock>>

FunctionCalls == FilterCalls \cup ScrapeCalls \cup NormalizeCalls

InitFunctions ==
    /\ creds = TRUE
    /\ response = <<>>
    /\ store = {}
    /\ clock = 0
    /\ last \in FunctionCalls
    /\ tasks = <<>>

NextFunctions ==
    \/ CheckJobRegex
    \/ ScrapeJobDetails
    \/ NormalizeItem

SpecFunctions == InitFunctions /\ [][NextFunctions]_vars

----------------------------------------------------------------------------
(* Properties *)

IsRun(l) == l.op = "run_scraper"
EnrichOps == {"enrich_job_description", "feature_endpoint", "enrich_job"}
IsDirect(l) == l.op = "enrich_job_description"

\* the candidates of a run that match a row of rows by url
UrlMatches(rows, l) ==
    {k \in 1..Len(l.decisions) : \E r \in rows : r.url = l.jobs[k].url}

\* the candidates a run processed that match no row of rows
Unmatched(rows, l) ==
    {k \in 1..Len(l.decisions) :
        ~\E r \in rows : r.id = l.jobs[k].id \/ r.url = l.jobs[k].url}

\* the candidates of a run are N different jobs
DistinctIds(l) == \A i, j \in 1..Len(l.jobs) : i # j => l.jobs[i].id # l.jobs[j].id

\* C1: Idempotent ingestion.  Two consecutive runs of the same query, in which
\* the provider answers with the same N surviving candidates (N different
\* jobs, none of them matching the store before the first run) and the store
\* does not fail: the first run reports success with added = N and
\* skipped = 0, the second added = 0 and skipped = N, and the second run
\* leaves the row count as it was.
C1_IdempotentIngestion ==
    [][(/\ IsRun(last) /\ IsRun(last')
        /\ last.search = "ok" /\ last'.search = "ok"
        /\ last'.query = last.query /\ last'.jobs = last.jobs
        /\ last.fault = 0 /\ last'.fault = 0
        /\ last.fresh /\ DistinctIds(last))
       => /\ last.report.status = "success"
          /\ last.report.added = Len(last.jobs)
          /\ last.report.skipped = 0
          /\ last'.report.status = "success"
          /\ last'.report.added = 0
          /\ last'.report.skipped = Len(last.jobs)
          /\ Cardinality(store') = Cardinality(store)]_vars

\* C1 witness: a run skipped all of its two or more candidates, which are rows
\* that one earlier run inserted together
C1_Witness ==
    /\ IsRun(last)
    /\ Len(last.jobs) >= 2
    /\ DistinctIds(last)
    /\ last.report.status = "success"
    /\ last.report.added = 0
    /\ last.report.skipped = Len(last.jobs)
    /\ Cardinality(store) = Len(last.jobs)
    /\ \A k \in 1..Len(last.jobs) : NewRow(last.jobs[k], clock) \in store

\* C2: Dedup key precedence.  In every run, each processed candidate whose url
\* equals the url of a row already in the store is skipped, whatever its id;
\* the run inserts no row carrying such a url; a success report counts at
\* least these candidates as skipped.
C2_UrlMatchIsDuplicate ==
    [][IsRun(last')
       => /\ \A k \in UrlMatches(store, last') : last'.decisions[k] = "skipped"
          /\ \A r \in store' \ store : ~\E q \in store : q.url = r.url
          /\ (last'.report.status = "success" /\ last'.jobs # <<>>
                => last'.report.skipped >= Cardinality(UrlMatches(store, last')))]_vars

\* C2 witness: a candidate was skipped on a url match although no row has its id
C2_Witness ==
    /\ IsRun(last)
    /\ last.report.status = "success"
    /\ \E k \in 1..Len(last.decisions) :
          /\ last.decisions[k] = "skipped"
          /\ \E r \in store : r.url = last.jobs[k].url /\ r.id # last.jobs[k].id
          /\ ~\E r \in store : r.id = last.jobs[k].id

\* C4: Batch atomicity.  A run in which the store fails (at a lookup or add, at
\* the commit, or by a key violation in the flush) leaves the store as it was
\* before the run and returns, without raising, an error report with the
\* exception message and the number of candidates added so far; and every
\* injected store failure ends in such a report.
C4_BatchAtomicity ==
    [][IsRun(last')
       => /\ (last'.fault # 0 => last'.report.status = "error")
          /\ (last'.report.status = "error"
                => /\ store' = store
                   /\ ~last'.raised
                   /\ last'.report.error \in {"OperationalError", "IntegrityError"}
                   /\ last'.report.added = Cardinality(Unmatched(store, last')))]_vars

\* C4 witness: the commit failed after a candidate had been added to the
\* session, and that candidate is not in the store
C4_Witness ==
    /\ IsRun(last)
    /\ last.fault = Len(last.jobs) + 1
    /\ last.report.status = "error"
    /\ last.report.added >= 1
    /\ \E k \in 1..Len(last.decisions) :
          /\ last.decisions[k] = "added"
          /\ ~\E r \in store : r.id = last.jobs[k].id

\* C5: Ingestion never modifies an existing record.  Every row that a candidate
\* of the run matches by id or by url is in the store after the run with all
\* its fields as before, and stays the only row of its id.
C5_ExistingUntouched ==
    [][IsRun(last')
       => \A r \in store :
             (\E k \in 1..Len(last'.jobs) :
                 last'.jobs[k].id = r.id \/ last'.jobs[k].url = r.url)
             => /\ r \in store'
                /\ \A q \in store' : q.id = r.id => q = r]_vars

\* C5 witness: a successful run skipped a candidate that has the id of a row
\* and a longer description than that row
C5_Witness ==
    /\ IsRun(last)
    /\ last.report.status = "success"
    /\ \E k \in 1..Len(last.decisions) : \E r \in store :
          /\ last.decisions[k] = "skipped"
          /\ r.id = last.jobs[k].id
          /\ last.jobs[k].description.len > r.description.len

\* C6: Soft failure of search.  When the search cannot succeed (no credentials,
\* network error, non-2xx answer) the search returns the empty list, the run
\* returns a success report with added = skipped = total_processed = 0 without
\* raising, the session is never used and the store is unchanged; without
\* credentials no request is sent to the provider, otherwise exactly one.
C6_SoftSearchFailure ==
    [][(IsRun(last') /\ last'.search # "ok")
       => /\ last'.jobs = <<>>
          /\ ~last'.raised
          /\ last'.report.status = "success"
          /\ last'.report.added = 0
          /\ last'.report.skipped = 0
          /\ last'.report.total_processed = 0
          /\ last'.dbops = 0
          /\ store' = store
          /\ last'.requests = (IF last'.search = "no_credentials" THEN 0 ELSE 1)]_vars

\* C6 witness: a run without credentials while the provider has results
C6_Witness ==
    /\ IsRun(last)
    /\ last.search = "no_credentials"
    /\ response # <<>>
    /\ last.report.total_processed = 0

\* the row of the job an enrichment call named, after the call
RowNow(l) == JobRow(store, l.job_id)

\* C3: Enrichment monotonicity.  No step shortens the stored description of a
\* row, and a step changes a stored description only to a strictly longer one.
C3_EnrichmentMonotone ==
    [][\A r \in store : \A q \in store' :
          q.id = r.id
          => /\ q.description.len >= r.description.len
             /\ (q.description # r.description
                   => q.description.len > r.description.len)]_vars

\* C7: No re-scrape of an enriched record.  After any enrichment call
\* (enrich_job_description, a feature endpoint, the manual trigger) on a row
\* whose stored description was longer than 500 characters, the Extractor was
\* not invoked, the row is unchanged, and enrich_job_description answered
\* skipped.
C7_NoRescrape ==
    (last.op \in EnrichOps /\ last.found /\ last.before.len > EnrichSkipThreshold)
    => /\ ~last.scraped
       /\ RowNow(last).description = last.before
       /\ (IsDirect(last) /\ last.fault = "none" => last.report.status = "skipped")

\* C8: enrich_job_description on a row without url answers failed (not error),
\* does not invoke the Extractor and leaves the row as it was.
C8_NoUrlIsFailed ==
    (IsDirect(last) /\ last.found /\ last.url = "" /\ last.fault = "none")
    => /\ last.report.status = "failed"
       /\ ~last.scraped
       /\ RowNow(last).description = last.before

\* C9: Best-effort failure.  When enrich_job_description finds the row, it has
\* a url and at most 500 characters of description, and the Extractor returns
\* None or a text not longer than the stored description, the call answers
\* failed and the store is unchanged.
C9_NotLongerIsFailed ==
    [][(/\ IsDirect(last') /\ last'.found /\ last'.url # ""
        /\ last'.fault = "none"
        /\ last'.before.len <= EnrichSkipThreshold
        /\ (last'.extracted = NULL \/ last'.extracted.len <= last'.before.len))
       => /\ last'.scraped
          /\ last'.report.status = "failed"
          /\ store' = store]_vars

\* C9 witness: the Extractor returned a text exactly as long as the stored,
\* non-empty description and the call answered failed
C9_Witness ==
    /\ IsDirect(last)
    /\ last.report.status = "failed"
    /\ last.scraped
    /\ last.extracted # NULL
    /\ last.before.len > 0
    /\ last.extracted.len = last.before.len

\* C10: Enrichment success.  When enrich_job_description answers success, the
\* committed description of the row is the text the Extractor returned, chars
\* is its length, and that length is strictly greater than the length stored
\* before the call.
C10_SuccessStoresExtracted ==
    [][(IsDirect(last') /\ last'.report.status = "success")
       => /\ HasJob(store, last'.job_id) /\ HasJob(store', last'.job_id)
          /\ last'.scraped /\ last'.extracted # NULL
          /\ JobRow(store', last'.job_id).description = last'.extracted
          /\ last'.report.chars = JobRow(store', last'.job_id).description.len
          /\ last'.report.chars > JobRow(store, last'.job_id).description.len]_vars

\* C10 witness: a success that replaced a non-empty description
C10_Witness ==
    /\ IsDirect(last)
    /\ last.report.status = "success"
    /\ last.before.len > 0
    /\ RowNow(last).description = last.extracted

\* C13: no ingestion run and no enrichment call removes a record: the set of
\* stored ids only grows or stays the same.
C13_NoDeletion ==
    [][{r.id : r \in store} \subseteq {r.id : r \in store'}]_vars

\* an enrichment call has rewritten one of two stored records
C13_Witness ==
    /\ last.op \in EnrichOps
    /\ last.scraped
    /\ Cardinality(store) = 2
    /\ \E r \in store : r.id = last.job_id /\ r.description = last.extracted

\* C20: no two stored records share the same non-empty url.
C20_UrlUniqueness ==
    \A r1 \in store, r2 \in store :
        (r1.url = r2.url /\ r1.url # "") => r1 = r2

\* C26: enrich_if_needed and enrich_job_description take the same decision
\* for every stored description length: a call of either on a record with a
\* url invokes the Extractor exactly when the other one's test would.
C26_SameSkipDecision ==
    (/\ last.op \in {"enrich_job_description", "feature_endpoint"}
     /\ last.found /\ last.url # "" /\ last.fault = "none") =>
        /\ IsDirect(last) => (last.scraped <=> last.before.len < MIN_DESCRIPTION_LENGTH)
        /\ ~IsDirect(last) => (last.scraped <=> last.before.len <= EnrichSkipThreshold)

\* C28: an enrichment call that changes the store changes only the
\* description of the record named by the job id: its id, url, title and
\* fetched_at and every other record are as before.
C28_EnrichmentFrame ==
    [][(last'.op \in EnrichOps /\ last' # last) =>
           /\ Cardinality(store') = Cardinality(store)
           /\ \A r \in store :
                  IF r.id = last'.job_id
                  THEN \E q \in store' :
                          /\ q.id = r.id /\ q.url = r.url /\ q.title = r.title
                          /\ q.fetched_at = r.fetched_at
                  ELSE r \in store']_vars

\* an enrichment call has rewritten the description of one of two records
\* that were inserted by different runs
C28_Witness ==
    /\ last.op \in EnrichOps
    /\ last.scraped
    /\ last.extracted # last.before
    /\ \E r \in store, q \in store :
           /\ r.id = last.job_id /\ r.description = last.extracted
           /\ q.id # r.id

\* C22: under every interleaving of two concurrent enrichment calls on one
\* record, no write of a call leaves the record's description shorter than
\* it was before that write.
C22_ConcurrentMonotone ==
    [][\A i \in 1..Len(tasks) :
          (tasks[i].pc = "write" /\ tasks'[i].pc = "done") =>
              \A r \in store : \A q \in store' :
                  q.id = r.id => q.description.len >= r.description.len]_vars

----------------------------------------------------------------------------
(* Relevance filter *)

IsFilter(l) == l.op = "check_job_regex"

\* the usable tokens of a query, and those of them a title contains
Tokens(query) == Range(query_words(query))
TokensIn(query, title) == Tokens(query) \cap Range(title)

\* the penalty words of a title, and those of them that are no query token
PenaltyWords(title) == Range(title) \cap BANNED_WORDS
Penalizing(query, title) == PenaltyWords(title) \ Tokens(query)

\* C11: for a query with at least one usable token, a title with no query
\* token and no penalty word is dropped, a title with exactly one query token
\* and no penalty word is kept, and a title with one query token and one
\* penalty word that is not in the query is dropped.
C11_ThresholdBoundary ==
    (IsFilter(last) /\ Tokens(last.query) # {}) =>
        LET hits == Cardinality(TokensIn(last.query, last.title))
            pen == PenaltyWords(last.title)
        IN  /\ (hits = 0 /\ pen = {}) => ~last.keep
            /\ (hits = 1 /\ pen = {}) => last.keep
            /\ (hits = 1 /\ Cardinality(pen) = 1 /\ pen \cap Range(last.query) = {})
                   => ~last.keep

\* the score of section 4.2: 15 for each query token found in the title,
\* minus 50 once when a penalty word that is no query token appears in it
Score(query, title) ==
    15 * Cardinality(TokensIn(query, title)) + 50
        - (IF Penalizing(query, title) # {} THEN 50 ELSE 0)

\* C18: for a query with usable tokens that the pattern can match and a title
\* with at most one penalty word, a candidate is kept if and only if its score
\* is at least 10 (the score is carried with an offset of 50 to stay in the
\* naturals).
C18_ScoringRule ==
    (/\ IsFilter(last)
     /\ Tokens(last.query) # {}
     /\ \A w \in Range(last.query) : WordBounded[w]
     /\ Cardinality(PenaltyWords(last.title)) <= 1) =>
        (last.keep <=> Score(last.query, last.title) >= 10 + 50)

\* C19: a candidate is penalized if and only if its title contains a penalty
\* word that is not a query token.
C19_PenaltyExemption ==
    IsFilter(last) =>
        (last.reason = "Banned" <=> Penalizing(last.query, last.title) # {})

----------------------------------------------------------------------------
(* Background runs *)

\* C12: under any interleaving of ingestion runs no two stored records have
\* the same id.
C12_IdUniqueness ==
    \A r1 \in store, r2 \in store : r1.id = r2.id => r1 = r2

\* the provider never repeated an id in one list, two runs added the same
\* candidate before either committed, and the later commit failed on the
\* primary key
C12_Witness ==
    /\ \A a, b \in 1..Len(response) : a # b => response[a].id # response[b].id
    /\ \E i, j \in 1..Len(tasks) :
           /\ tasks[i].pc = "done" /\ tasks[j].pc = "done"
           /\ tasks[i].result.kind = "report" /\ tasks[j].result.kind = "report"
           /\ tasks[i].result.report.status = "success"
           /\ tasks[i].result.report.added > 0
           /\ tasks[j].result.report.status = "error"
           /\ tasks[j].result.report.added > 0

IsTrigger(l) == l.op = "trigger_scrape"
Finished(task) == task.pc = "done"
Reported(task) ==
    /\ task.result.kind = "report"
    /\ task.result.report.status \in {"success", "error"}

\* every run that was added ends (holds under SpecTasks)
RunsTerminate ==
    \A i \in 1..MaxTasks : (i <= Len(tasks)) ~> (i <= Len(tasks) /\ Finished(tasks[i]))

\* C14: each call of the scrape trigger adds exactly one run behind the runs
\* that are there and answers with the queued status, and a run that has
\* ended has returned a success report or an error report.
C14_BackgroundRuns ==
    [][/\ (IsTrigger(last') /\ last' # last) =>
            /\ tasks' = Append(tasks, QueuedTask(last'.query))
            /\ last'.response.status = "background_task_queued"
       /\ \A i \in 1..Len(tasks') : Finished(tasks'[i]) => Reported(tasks'[i])]_vars

\* C25: for a query without usable token (empty, or every word shorter than 2
\* characters) a candidate is kept if and only if its title contains no
\* penalty word.
C25_EmptyTokenQuery ==
    (/\ IsFilter(last)
     /\ \A i \in 1..Len(last.query) : WordLength[last.query[i]] < 2) =>
        (last.keep <=> PenaltyWords(last.title) = {})

\* a query of one-character words kept a title that holds none of them
C25_Witness ==
    /\ IsFilter(last)
    /\ last.query = <<"c">>
    /\ last.title = <<"ai", "engineer">>
    /\ last.keep

\* the place of a step in a run
StepRank(step) ==
    CASE step = "search" -> 1
      [] step = "filter" -> 2
      [] step = "upsert" -> 3
      [] step = "report" -> 4

InOrder(steps) ==
    /\ \A a, b \in 1..Len(steps) : a < b => StepRank(steps[a]) <= StepRank(steps[b])
    /\ \A a, b \in 1..Len(steps) :
           (a # b /\ steps[a] = steps[b]) => steps[a] = "upsert"

\* C24: the steps of every run occur in the order search, filter, upsert,
\* report, with one search, one filter and one report at most; a run sends at
\* most one request to the provider; and the store is read (an upsert step)
\* or changed only by a run whose search and filter are behind it.
C24_RunOrder ==
    [][/\ \A i \in 1..Len(tasks') :
             /\ InOrder(tasks'[i].steps)
             /\ tasks'[i].requests <= 1
             /\ (\E a \in 1..Len(tasks'[i].steps) : tasks'[i].steps[a] = "upsert") =>
                    (tasks'[i].steps[1] = "search" /\ tasks'[i].steps[2] = "filter")
       /\ store' # store =>
             \E i \in 1..Len(tasks) :
                 /\ tasks'[i] # tasks[i]
                 /\ Len(tasks[i].steps) > 2
                 /\ tasks[i].steps[1] = "search" /\ tasks[i].steps[2] = "filter"
                 /\ tasks'[i].steps = Append(tasks[i].steps, "report")]_vars

\* one run has gone through all four steps and has inserted a row; another
\* run's only request failed and it ended with the zero report
C24_Witness ==
    /\ store # {}
    /\ \E i, j \in 1..Len(tasks) :
           /\ Finished(tasks[i])
           /\ tasks[i].steps = <<"search", "filter", "upsert", "report">>
           /\ tasks[i].result.report.added = 1
           /\ Finished(tasks[j])
           /\ tasks[j].steps = <<"search", "report">>
           /\ tasks[j].requests = 1
           /\ tasks[j].result.report.total_processed = 0

----------------------------------------------------------------------------
(* Extractor *)

IsScrape(l) == l.op = "scrape_job_details"

\* C15: scrape_job_details never raises; a transport error, a timeout or a
\* non-2xx status of the fetch gives null; the empty url gives null without a
\* request; a call sends at most one GET.
C15_ExtractorNeverRaises ==
    IsScrape(last) =>
        /\ ~last.raised
        /\ last.fetch \in {"transport_error", "timeout", "non_2xx"} => last.result = NULL
        /\ last.url = "" => (last.result = NULL /\ last.requests = 0)
        /\ last.requests <= 1

\* a fetch that was sent and answered with a non-2xx status
C15_Witness ==
    /\ IsScrape(last)
    /\ last.url # ""
    /\ last.fetch = "non_2xx"
    /\ last.requests = 1
    /\ last.result = NULL

\* C16: the returned text is never longer than 8000 characters plus the
\* marker; a normalised text of more than 8000 characters is returned as its
\* first 8000 characters followed by the marker, a text of at most 8000
\* characters is returned whole and without marker.
C16_Truncation ==
    (IsScrape(last) /\ last.result # NULL) =>
        /\ last.result.len <= MaxExtractLength + EllipsisLength
        /\ last.result.body = last.extracted.src
        /\ last.extracted.norm > MaxExtractLength =>
               /\ last.result.head = MaxExtractLength
               /\ last.result.marker = "..."
               /\ last.result.len = MaxExtractLength + EllipsisLength
        /\ last.extracted.norm <= MaxExtractLength =>
               /\ last.result.head = last.extracted.norm
               /\ last.result.marker = ""
               /\ last.result.len = last.extracted.norm

\* a text of 8001 characters that the normalisation shortens to 8000 comes
\* back whole
C16_Witness ==
    /\ IsScrape(last)
    /\ last.result # NULL
    /\ last.extracted.raw = MaxExtractLength + 1
    /\ last.extracted.norm = MaxExtractLength
    /\ last.result.marker = ""

----------------------------------------------------------------------------
(* Normalisation *)

IsNormalize(l) == l.op = "normalize"

\* the value is missing or is no number
NonNumeric(v) == v.kind \in {"missing", "null", "word", "empty", "list"}

\* title, company, location and description of the item are strings or are
\* missing
DisplayFine(item) ==
    /\ ~NormalizeRaises(item.item)
    /\ item.company # NullNamed
    /\ item.location # NullNamed

C29_DisplayFieldsNeverNull ==
    (/\ IsNormalize(last)
     /\ JsonInfinity \notin {last.item.salary_min, last.item.salary_max}) =>
        /\ last.raised = ""
        /\ Len(last.jobs) = 1
        /\ last.jobs[1].job.title # NoneTitle
        /\ ~last.jobs[1].company.none
        /\ ~last.jobs[1].location.none
        /\ last.item.item.title \in {MissingTitle, NoneTitle} =>
               last.jobs[1].job.title = UnknownRole
        /\ last.item.company.kind # "object" => last.jobs[1].company = Str("Unknown")
        /\ last.item.location.kind # "object" => last.jobs[1].location = Str("Remote")

----------------------------------------------------------------------------
(* Ingestion: batches, urls, accounting *)

\* candidate k repeats the id of an earlier candidate of the run
LaterOccurrence(l, k) == \E j \in 1..(k - 1) : l.jobs[j].id = l.jobs[k].id

\* C21: a run whose candidate list holds the same id twice (no candidate
\* matching a stored row, the store not failing) ends with status success,
\* adds the first occurrence, counts the later one as skipped and persists
\* the other candidates.
C21_InBatchDuplicate ==
    (/\ IsRun(last)
     /\ last.search = "ok"
     /\ last.fault = 0
     /\ last.fresh
     /\ ~DistinctIds(last)) =>
        /\ last.report.status = "success"
        /\ \A k \in 1..Len(last.jobs) :
              /\ Len(last.decisions) >= k
              /\ last.decisions[k] = IF LaterOccurrence(last, k) THEN "skipped" ELSE "added"
              /\ \E r \in store : r.id = last.jobs[k].id

\* C23: a candidate without url whose id matches no stored record is added as
\* a new record, whatever urls the stored records have (the run's candidates
\* being different jobs and the store not failing).
C23_NoUrlDedupById ==
    [][(/\ IsRun(last') /\ last' # last
        /\ last'.search = "ok"
        /\ last'.fault = 0
        /\ DistinctIds(last')) =>
           \A k \in 1..Len(last'.jobs) :
               (/\ last'.jobs[k].url = ""
                /\ ~\E r \in store : r.id = last'.jobs[k].id) =>
                   /\ last'.decisions[k] = "added"
                   /\ NewRow(last'.jobs[k], clock') \in store']_vars

\* the provider items that survive the relevance filter of the run
Survivors(l) ==
    IF l.search # "ok" THEN {}
    ELSE {k \in 1..Len(response) : check_job_regex(l.query, Normalize(response[k]))}

\* C27: in every success report added + skipped = total_processed,
\* total_processed is the number of candidates that survived the relevance
\* filter, and the store grows by exactly added rows during the run.
C27_ReportAccounting ==
    [][(/\ IsRun(last') /\ last' # last
        /\ last'.report.status = "success") =>
           /\ last'.report.added + last'.report.skipped = last'.report.total_processed
           /\ last'.report.total_processed = Cardinality(Survivors(last'))
           /\ Cardinality(store') = Cardinality(store) + last'.report.added]_vars

\* a run that added one candidate and skipped another one
C27_Witness ==
    /\ IsRun(last)
    /\ last.report.status = "success"
    /\ last.report.added = 1
    /\ last.report.skipped = 1
    /\ Cardinality(store) = 2

----------------------------------------------------------------------------
(* Extractor: choice of the container *)

\* the element of a page for selector i, and whether it qualifies
Container(page, i) ==
    IF selectors[i] \in PageSelectors THEN page.containers[selectors[i]] ELSE Absent
Qualifies(page, i) ==
    Container(page, i).present /\ Container(page, i).raw > MinContainerLength

\* C30: on a fetched page the result is the text of the first container, in
\* the order of the selectors, whose text is longer than 200 characters; the
\* text of body is used only when no container qualifies; the result is null,
\* never an empty text, when there is no text at all.
C30_SelectorPriority ==
    (IsScrape(last) /\ last.url # "" /\ last.fetch = "ok") =>
        /\ \A i \in 1..Len(selectors) :
              (Qualifies(last.page, i) /\ \A j \in 1..(i - 1) : ~Qualifies(last.page, j)) =>
                  /\ last.result # NULL
                  /\ last.result.body = selectors[i]
                  /\ last.extracted.raw = Container(last.page, i).raw
        /\ (\A i \in 1..Len(selectors) : ~Qualifies(last.page, i)) =>
              IF last.page.body.present /\ last.page.body.raw > 0
              THEN last.result # NULL /\ last.result.body = "body"
              ELSE last.result = NULL
        /\ last.result = NULL \/ last.result.len > 0

\* the first selector finds a short element, a later one a long element, and
\* the result is the later one's text although body is there as well
C30_Witness ==
    /\ IsScrape(last) /\ last.url # "" /\ last.fetch = "ok"
    /\ Container(last.page, 1).present
    /\ ~Qualifies(last.page, 1)
    /\ Qualifies(last.page, Len(selectors))
    /\ last.page.body.present
    /\ last.result # NULL
    /\ last.result.body = "main"

====
